---- MODULE Spec2Model ----
(***************************************************************************)
(* State-machine model of the ecommerce-crawler repository.                *)
(*                                                                         *)
(*   Part I   URLs, regular-expression search and the URL helpers          *)
(*   Part II  SimpleEcommerceCrawler (direct_crawler.py): the crawl loop   *)
(*   Part III EcommerceSpider.parse_links (crawler/spiders)                *)
(*   Part IV  canonicalization applied to given URLs                       *)
(*   Part V   direct_crawler.main and combine_results                      *)
(*   Part VI  the item pipelines (crawler/pipelines.py)                    *)
(*                                                                         *)
(* A URL is a record of the components urlparse() produces.  The path is   *)
(* the sequence of its segments and `slash` tells whether the path ends    *)
(* with "/"; the query is the sequence of its tokens: the literal "utm_",  *)
(* a letter ("a"), "=" or the separator "&".  The string of a URL is       *)
(*   scheme "://" host "/" seg1 "/" ... "/" segn ["/"] ["?" query]         *)
(*   ["#" fragment]                                                        *)
(* and re.search is evaluated on that string, segment by segment.          *)
(***************************************************************************)
EXTENDS Integers, Sequences, FiniteSets, TLC

(***************************************************************************)
(* Bounds of the model: max_products ranges over 0..MaxProductsBound,      *)
(* max_depth over 0..MaxDepthBound, a configuration lists at most MaxSeeds *)
(* start URLs and the pages fetched in one crawl carry at most MaxLinks    *)
(* hrefs together.                                                         *)
(***************************************************************************)
MaxProductsBound == 2
MaxDepthBound == 2
MaxLinks == 2
MaxSeeds == 2

(***************************************************************************)
(* Part I.  URLs.                                                          *)
(***************************************************************************)
Url(h, p, s, q, f) ==
  [scheme |-> "https", host |-> h, path |-> p, slash |-> s, query |-> q, fragment |-> f]

Home == Url("www.shop.com", <<>>, TRUE, <<>>, "")
Prod1 == Url("www.shop.com", <<"products", "1">>, FALSE, <<>>, "")
ProdLogin == Url("www.shop.com", <<"products", "login">>, FALSE, <<>>, "")
Cat == Url("www.shop.com", <<"c">>, TRUE, <<>>, "")

\* the hrefs a fetched page can carry, after urljoin
Hrefs == {Cat, Prod1, ProdLogin}

\* URLs of other shapes: with a fragment, on another domain, with another scheme
HomeFrag == [Home EXCEPT !.fragment = "top"]
OtherHome == Url("www.other.com", <<>>, TRUE, <<>>, "")
OtherProd == Url("www.other.com", <<"products", "9">>, FALSE, <<>>, "")
FtpProd == [Prod1 EXCEPT !.scheme = "ftp"]

\* a site whose pages link to another domain and to an ftp:// resource, and
\* a configuration whose start URLs carry a fragment or lie on another domain
AnyHrefs == {Prod1, OtherProd, FtpProd}
AnySeedUrls == {HomeFrag, OtherHome}

\* an href whose authority opens a bracket it never closes ("https://[");
\* urljoin raises ValueError on it
BadHref == Url("[", <<>>, FALSE, <<>>, "")

\* a site whose pages carry such an href among their links
MalformedHrefs == {Cat, Prod1, BadHref}

\* start URLs of a configuration that lists a page the home page links to
LinkedSeedUrls == {Home, Cat}

\* the URLs a domain configuration can list as start_urls
SeedUrls == {Home, ProdLogin}

\* the start URLs of the Scrapy spider
SpiderSeedUrls == {Home}

\* s starts with p / s ends with e, on the vocabulary of the model
Prefixes == {<<"products", "product">>, <<"items", "item">>, <<"goods", "good">>}
HasPrefix(s, p) == s = p \/ <<s, p>> \in Prefixes
Suffixes == {<<"manual.pdf", ".pdf">>, <<"sitemap.xml", ".xml">>}
HasSuffix(s, e) == <<s, e>> \in Suffixes

Dir(names) == [kind |-> "dir", names |-> names]
Pre(p) == [kind |-> "prefix", p |-> p]
Ext(e) == [kind |-> "ext", e |-> e]

\* re.search(pattern, url) for the pattern shapes the repository uses:
\*   dir     r'/name[s]?/'   a whole segment followed by "/"
\*   pair    r'/shop/product[s]?'
\*   prefix  r'/login'       "/" followed by the word: a segment, or the host
\*                           (preceded by "//"), starting with it
\*   ext     r'\.pdf$'       the URL string ends with the extension
re_search(pat, url) ==
  LET n == Len(url.path) IN
  CASE pat.kind = "dir" ->
         \E i \in 1..n : url.path[i] \in pat.names /\ (i < n \/ url.slash)
    [] pat.kind = "pair" ->
         \E i \in 1..(n - 1) : url.path[i] = pat.first /\ HasPrefix(url.path[i + 1], pat.p)
    [] pat.kind = "prefix" ->
         \/ \E i \in 1..n : HasPrefix(url.path[i], pat.p)
         \/ HasPrefix(url.host, pat.p)
    [] pat.kind = "ext" ->
         /\ n > 0 /\ ~url.slash /\ url.query = <<>> /\ url.fragment = ""
         /\ HasSuffix(url.path[n], pat.e)

default_patterns ==
  << Dir({"product", "products"}), Dir({"p"}), Dir({"item", "items"}), Dir({"pd"}),
     [kind |-> "pair", first |-> "shop", p |-> "product"], Dir({"good", "goods"}) >>

exclude_patterns ==
  << Pre("login"), Pre("register"), Pre("cart"), Pre("checkout"), Pre("wishlist"),
     Pre("account"), Pre("blog"), Pre("article"), Pre("search"), Pre("contact"),
     Pre("about"), Pre("faq"), Pre("help"), Pre("support"), Pre("privacy"),
     Pre("terms"), Pre("policy"), Pre("sitemap"),
     Ext(".xml"), Ext(".pdf"), Ext(".jpg"), Ext(".png"), Ext(".gif") >>

AnyMatch(patterns, url) == \E i \in 1..Len(patterns) : re_search(patterns[i], url)

is_product_url(url) == AnyMatch(default_patterns, url)

is_valid_url(url) == url.scheme # "" /\ url.host # ""

normalize_url(url) == [url EXCEPT !.fragment = ""]

\* the alphabet of query strings: "utm_" stands for these four characters in
\* a row, "a" for a letter that is none of them
QChars == {"utm_", "a", "=", "&"}
Letters == {"a"}

RECURSIVE SkipLetters(_, _)
SkipLetters(q, i) == IF i <= Len(q) /\ q[i] \in Letters THEN SkipLetters(q, i + 1) ELSE i

RECURSIVE SkipValue(_, _)
SkipValue(q, i) == IF i <= Len(q) /\ q[i] # "&" THEN SkipValue(q, i + 1) ELSE i

\* the match of r'utm_[a-zA-Z]+=[^&]*&?' that starts at position i of q: the
\* position that follows it, or 0 when there is no match at i
MatchUtm(q, i) ==
  LET j == SkipLetters(q, i + 1)
  IN IF q[i] = "utm_" /\ j > i + 1 /\ j <= Len(q) /\ q[j] = "="
     THEN LET k == SkipValue(q, j + 1) IN IF k <= Len(q) THEN k + 1 ELSE k
     ELSE 0

\* re.sub(pattern, '', q) from position i on: one scan from left to right,
\* every match dropped, the scan resumed behind the match
RECURSIVE SubUtmFrom(_, _)
SubUtmFrom(q, i) ==
  IF i > Len(q) THEN <<>>
  ELSE IF MatchUtm(q, i) # 0 THEN SubUtmFrom(q, MatchUtm(q, i))
       ELSE <<q[i]>> \o SubUtmFrom(q, i + 1)

SubUtm(q) == SubUtmFrom(q, 1)

clean_url(url) == [url EXCEPT !.query = SubUtm(url.query)]

\* tldextract: the registrable domain of a host
RegDomain(h) ==
  CASE h = "www.shop.com" -> "shop.com"
    [] h = "m.shop.com" -> "shop.com"
    [] h = "www.other.com" -> "other.com"
    [] h = "www.example.com" -> "example.com"
    [] OTHER -> h

is_same_domain(url1, url2) == RegDomain(url1.host) = RegDomain(url2.host)

(***************************************************************************)
(* Part II.  SimpleEcommerceCrawler.                                       *)
(*                                                                         *)
(* Program state: start_urls, product_patterns, max_products, max_depth    *)
(* (fixed by __init__), visited_urls, product_urls, queue, the loop        *)
(* locals url/depth (cur) and the links still to be looked at (links),     *)
(* the position in crawl() (pc), and the saved result.                     *)
(* Observation (history) variables: enqueued, popped, classified and       *)
(* fetched record every queue.append, queue.popleft, is_product call and   *)
(* fetch_page call, in order.                                              *)
(***************************************************************************)
VARIABLES domain, config_file, site_hrefs,
          start_urls, product_patterns, max_products, max_depth,
          visited_urls, product_urls, queue, cur, links, pc, saved,
          enqueued, popped, classified, fetched

cvars == << domain, config_file, site_hrefs,
            start_urls, product_patterns, max_products, max_depth,
            visited_urls, product_urls, queue, cur, links, pc, saved,
            enqueued, popped, classified, fetched >>

\* EcommerceSpider and the Scrapy engine that drives it (Part III)
VARIABLES sp_state, sp_domain, sp_config_file, allowed_domains,
          sp_start_urls, site_specific_patterns, sp_max_products, sp_max_depth,
          products_found, requests, seen, callbacks, yielded, hrefs_served, site_links

svars == << sp_state, sp_domain, sp_config_file, allowed_domains,
            sp_start_urls, site_specific_patterns, sp_max_products, sp_max_depth,
            products_found, requests, seen, callbacks, yielded, hrefs_served, site_links >>

\* the URL helpers applied to given URLs (canonicalization)
VARIABLES cn_pc, cn_a, cn_b, cn_ca, cn_cb, cn_cca

uvars == << cn_pc, cn_a, cn_b, cn_ca, cn_cb, cn_cca >>

\* direct_crawler.main and combine_results
VARIABLES m_pc, domains_to_crawl, m_i, clock, output_dir, m_log, combined

mvars == << m_pc, domains_to_crawl, m_i, clock, output_dir, m_log, combined >>

\* the item pipelines of the Scrapy project
VARIABLES urls_seen, items_per_domain, processed

pvars == << urls_seen, items_per_domain, processed >>

\* what __init__ fixes, and the site the crawl runs on (the hrefs its pages
\* can carry)
config == << domain, config_file, site_hrefs,
             start_urls, product_patterns, max_products, max_depth >>
sp_config == << sp_domain, sp_config_file, allowed_domains,
                sp_start_urls, site_specific_patterns, sp_max_products, sp_max_depth,
                site_links >>
history == << enqueued, popped, classified, fetched >>

SeqsUpTo(S, n) == UNION {[1..k -> S] : k \in 0..n}

\* list(s) of a set s of str: the elements once each, in the iteration order
\* of the set, which follows the hashes of the strings and so differs from
\* one interpreter process to the next
RECURSIVE list(_)
list(S) ==
  IF S = {} THEN {<<>>}
  ELSE UNION {{<<f>> \o o : o \in list(S \ {f})} : f \in S}

Range(seq) == {seq[i] : i \in 1..Len(seq)}

\* domain-specific product_patterns a configuration can carry
ProductPatternChoices == { <<>>, << Dir({"c"}) >> }

NoItem == [url |-> Home, depth |-> -1]
Item(u, d) == [url |-> u, depth |-> d]

is_excluded(url) == AnyMatch(exclude_patterns, url)

is_product(patterns, url) == AnyMatch(patterns, url) \/ is_product_url(url)

\* urljoin(base_url, href) raises
urljoin_raises(href) == href.host = "["

\* extract_links raises inside its try block on some href of the page
extraction_raises(html) == \E i \in 1..Len(html) : urljoin_raises(html[i])

\* extract_links(html, base_url); html is the sequence of the page's hrefs.
\* The try block encloses the whole loop over the hrefs: an exception ends
\* the loop and the links appended so far are returned.
RECURSIVE extract_links(_, _)
extract_links(html, base_url) ==
  IF html = <<>> THEN <<>>
  ELSE IF urljoin_raises(Head(html)) THEN <<>>
  ELSE LET absolute_url == clean_url(normalize_url(Head(html)))
           rest == extract_links(Tail(html), base_url)
       IN IF is_valid_url(absolute_url) /\ is_same_domain(absolute_url, base_url)
          THEN <<absolute_url>> \o rest
          ELSE rest

RECURSIVE SumServed(_)
SumServed(fs) == IF fs = <<>> THEN 0 ELSE Head(fs).served + SumServed(Tail(fs))

\* number of hrefs on the pages fetched so far; the site serves at most
\* MaxLinks hrefs in one crawl, on one page or spread over several
LinksServed == SumServed(fetched)

\* The configuration source (domains.json) as open() and json.load find it:
\* no file, a file that is not JSON, or a JSON object that maps domains to
\* entries; an entry is a dict with the keys it carries.
NoFile == [kind |-> "missing"]
CorruptFile == [kind |-> "corrupt"]
JsonFile(configs) == [kind |-> "json", configs |-> configs]
EmptyDict == [k \in {} |-> <<>>]
Entry(s, p) == [start_urls |-> s, product_patterns |-> p]

\* _load_configs, lines 154-161: {} on IOError and on JSONDecodeError
load_configs(file) == IF file.kind = "json" THEN file.configs ELSE EmptyDict

\* dict.get(key, default)
get(dict, key, default) == IF key \in DOMAIN dict THEN dict[key] ELSE default

\* "www." + domain
WwwHost(d) ==
  CASE d = "shop.com" -> "www.shop.com"
    [] d = "other.com" -> "www.other.com"
    [] d = "example.com" -> "www.example.com"
    [] d = "example.org" -> "www.example.org"

\* f"https://www.{domain}/"
DefaultSeed(d) == Url(WwwHost(d), <<>>, TRUE, <<>>, "")

\* _configure_for_domain without the synthesized seed
configure_for_domain_noseed(d, configs) ==
  IF d \notin DOMAIN configs
  THEN Entry(<<>>, <<>>)
  ELSE Entry(get(configs[d], "start_urls", <<>>),
             get(configs[d], "product_patterns", <<>>))

\* _configure_for_domain, lines 163-172
configure_for_domain(d, configs) ==
  IF d \notin DOMAIN configs
  THEN Entry(<<DefaultSeed(d)>>, <<>>)
  ELSE Entry(get(configs[d], "start_urls", <<DefaultSeed(d)>>),
             get(configs[d], "product_patterns", <<>>))

\* the configuration sources of the model, for a crawl of domain d whose
\* entry, if any, lists start URLs among seeds
ConfigFiles(d, seeds) ==
  {NoFile, CorruptFile, JsonFile([x \in {"other.com"} |-> EmptyDict]),
   JsonFile([x \in {d} |-> EmptyDict])}
  \cup {JsonFile([x \in {d} |-> Entry(su, pp)]) :
          su \in SeqsUpTo(seeds, MaxSeeds), pp \in ProductPatternChoices}

\* __init__, lines 126-152, for a crawl of shop.com on a site whose pages
\* carry hrefs among hrefs
CrawlInitOver(seeds, hrefs) ==
  /\ domain = "shop.com"
  /\ config_file \in ConfigFiles("shop.com", seeds)
  /\ site_hrefs = hrefs
  /\ start_urls = configure_for_domain(domain, load_configs(config_file)).start_urls
  /\ product_patterns = configure_for_domain(domain, load_configs(config_file)).product_patterns
  /\ max_products \in 0..MaxProductsBound
  /\ max_depth \in 0..MaxDepthBound
  /\ visited_urls = {}
  /\ product_urls = {}
  /\ queue = <<>>
  /\ cur = NoItem
  /\ links = <<>>
  /\ pc = "seed"
  /\ saved = <<>>
  /\ enqueued = <<>>
  /\ popped = <<>>
  /\ classified = <<>>
  /\ fetched = <<>>

CrawlInit == CrawlInitOver(SeedUrls, Hrefs)

\* crawl(), lines 227-228: every start URL is appended at depth 0
Seed ==
  /\ pc = "seed"
  /\ LET items == [i \in 1..Len(start_urls) |-> Item(start_urls[i], 0)]
     IN /\ queue' = queue \o items
        /\ enqueued' = enqueued \o items
  /\ pc' = "loop"
  /\ UNCHANGED << svars, uvars, mvars, pvars, config, visited_urls, product_urls, cur, links, saved,
                  popped, classified, fetched >>

LoopCondition_le == queue # <<>> /\ Cardinality(product_urls) <= max_products

\* line 234: while self.queue and len(self.product_urls) < self.max_products
LoopCondition == queue # <<>> /\ Cardinality(product_urls) < max_products

DepthReached_never(item) == FALSE

DepthReached_gt(item) == item.depth > max_depth

\* line 256: if depth >= self.max_depth
DepthReached(item) == item.depth >= max_depth

\* Pop that takes the item from the right end of the deque
Pop_right ==
  /\ pc = "loop"
  /\ LoopCondition
  /\ cur' = queue[Len(queue)]
  /\ queue' = SubSeq(queue, 1, Len(queue) - 1)
  /\ popped' = Append(popped, queue[Len(queue)])
  /\ IF queue[Len(queue)].url \in visited_urls
     THEN /\ pc' = "loop"
          /\ UNCHANGED visited_urls
     ELSE /\ visited_urls' = visited_urls \cup {queue[Len(queue)].url}
          /\ pc' = "classify"
  /\ UNCHANGED << svars, uvars, mvars, pvars, config, product_urls, links, saved, enqueued, classified, fetched >>

\* Pop that reads queue[0] and leaves the item in the queue
Pop_peek ==
  /\ pc = "loop"
  /\ LoopCondition
  /\ cur' = Head(queue)
  /\ IF Head(queue).url \in visited_urls
     THEN /\ pc' = "loop"
          /\ UNCHANGED << visited_urls, popped >>
     ELSE /\ visited_urls' = visited_urls \cup {Head(queue).url}
          /\ popped' = Append(popped, Head(queue))
          /\ pc' = "classify"
  /\ UNCHANGED << svars, uvars, mvars, pvars, config, product_urls, queue, links, saved, enqueued, classified, fetched >>

\* Pop that marks nothing visited
Pop_nomark ==
  /\ pc = "loop"
  /\ LoopCondition
  /\ cur' = Head(queue)
  /\ queue' = Tail(queue)
  /\ popped' = Append(popped, Head(queue))
  /\ pc' = IF Head(queue).url \in visited_urls THEN "loop" ELSE "classify"
  /\ UNCHANGED << svars, uvars, mvars, pvars, config, visited_urls, product_urls, links, saved, enqueued, classified, fetched >>

\* Pop that does not skip a visited URL
Pop_noskip ==
  /\ pc = "loop"
  /\ LoopCondition
  /\ cur' = Head(queue)
  /\ queue' = Tail(queue)
  /\ popped' = Append(popped, Head(queue))
  /\ visited_urls' = visited_urls \cup {Head(queue).url}
  /\ pc' = "classify"
  /\ UNCHANGED << svars, uvars, mvars, pvars, config, product_urls, links, saved, enqueued, classified, fetched >>

\* lines 234-243: the loop test holds; popleft, skip a visited URL, else mark it
Pop ==
  /\ pc = "loop"
  /\ LoopCondition
  /\ cur' = Head(queue)
  /\ queue' = Tail(queue)
  /\ popped' = Append(popped, Head(queue))
  /\ IF Head(queue).url \in visited_urls
     THEN /\ pc' = "loop"
          /\ UNCHANGED visited_urls
     ELSE /\ visited_urls' = visited_urls \cup {Head(queue).url}
          /\ pc' = "classify"
  /\ UNCHANGED << svars, uvars, mvars, pvars, config, product_urls, links, saved, enqueued, classified, fetched >>

\* line 234: the loop test fails
LoopExit ==
  /\ pc = "loop"
  /\ ~LoopCondition
  /\ pc' = "save"
  /\ UNCHANGED << svars, uvars, mvars, pvars, config, visited_urls, product_urls, queue, cur, links, saved, history >>

\* Classify without the break at the product limit
Classify_nobreak ==
  /\ pc = "classify"
  /\ classified' = Append(classified, cur)
  /\ IF is_product(product_patterns, cur.url)
     THEN product_urls' = product_urls \cup {cur.url}
     ELSE UNCHANGED product_urls
  /\ pc' = "depth"
  /\ UNCHANGED << svars, uvars, mvars, pvars, config, visited_urls, queue, cur, links, saved, enqueued, popped, fetched >>

\* Classify with the depth cutoff applied before the classification
Classify_depthfirst ==
  /\ pc = "classify"
  /\ IF DepthReached(cur)
     THEN /\ pc' = "loop"
          /\ UNCHANGED << product_urls, classified >>
     ELSE /\ classified' = Append(classified, cur)
          /\ IF is_product(product_patterns, cur.url)
             THEN /\ product_urls' = product_urls \cup {cur.url}
                  /\ pc' = IF Cardinality(product_urls') >= max_products THEN "save" ELSE "depth"
             ELSE /\ UNCHANGED product_urls
                  /\ pc' = "depth"
  /\ UNCHANGED << svars, uvars, mvars, pvars, config, visited_urls, queue, cur, links, saved, enqueued, popped, fetched >>

\* lines 246-253: classify; break when the limit is reached
Classify ==
  /\ pc = "classify"
  /\ classified' = Append(classified, cur)
  /\ IF is_product(product_patterns, cur.url)
     THEN /\ product_urls' = product_urls \cup {cur.url}
          /\ pc' = IF Cardinality(product_urls') >= max_products THEN "save" ELSE "depth"
     ELSE /\ UNCHANGED product_urls
          /\ pc' = "depth"
  /\ UNCHANGED << svars, uvars, mvars, pvars, config, visited_urls, queue, cur, links, saved, enqueued, popped, fetched >>

\* lines 256-257: an item at max depth is not expanded
DepthCutoff ==
  /\ pc = "depth"
  /\ DepthReached(cur)
  /\ pc' = "loop"
  /\ UNCHANGED << svars, uvars, mvars, pvars, config, visited_urls, product_urls, queue, cur, links, saved, history >>

\* lines 260-265: fetch_page returns the page; extract_links gives its links
\* (requests.get serves http and https only, any other scheme raises)
FetchOk ==
  /\ pc = "depth"
  /\ ~DepthReached(cur)
  /\ cur.url.scheme \in {"http", "https"}
  /\ \E html \in SeqsUpTo(site_hrefs, MaxLinks - LinksServed) :
       /\ links' = extract_links(html, cur.url)
       /\ fetched' = Append(fetched, [url |-> cur.url, depth |-> cur.depth, ok |-> TRUE,
                                      served |-> Len(html),
                                      raised |-> extraction_raises(html),
                                      links |-> extract_links(html, cur.url)])
  /\ pc' = "links"
  /\ UNCHANGED << svars, uvars, mvars, pvars, config, visited_urls, product_urls, queue, cur, saved,
                  enqueued, popped, classified >>

\* lines 260-262: fetch_page returns None (HTTP error, exception) or no content
FetchFail ==
  /\ pc = "depth"
  /\ ~DepthReached(cur)
  /\ fetched' = Append(fetched, [url |-> cur.url, depth |-> cur.depth, ok |-> FALSE,
                                 served |-> 0, raised |-> FALSE, links |-> <<>>])
  /\ pc' = "loop"
  /\ UNCHANGED << svars, uvars, mvars, pvars, config, visited_urls, product_urls, queue, cur, links, saved,
                  enqueued, popped, classified >>

\* NextLink without the visited test
NextLink_nocheck ==
  /\ pc = "links"
  /\ links # <<>>
  /\ links' = Tail(links)
  /\ IF is_excluded(Head(links))
     THEN UNCHANGED << queue, enqueued >>
     ELSE /\ queue' = Append(queue, Item(Head(links), cur.depth + 1))
          /\ enqueued' = Append(enqueued, Item(Head(links), cur.depth + 1))
  /\ pc' = "links"
  /\ UNCHANGED << svars, uvars, mvars, pvars, config, visited_urls, product_urls, cur, saved, popped, classified, fetched >>

\* NextLink that pushes on the left of the deque
NextLink_lifo ==
  /\ pc = "links"
  /\ links # <<>>
  /\ links' = Tail(links)
  /\ IF is_excluded(Head(links)) \/ Head(links) \in visited_urls
     THEN UNCHANGED << queue, enqueued >>
     ELSE /\ queue' = <<Item(Head(links), cur.depth + 1)>> \o queue
          /\ enqueued' = Append(enqueued, Item(Head(links), cur.depth + 1))
  /\ pc' = "links"
  /\ UNCHANGED << svars, uvars, mvars, pvars, config, visited_urls, product_urls, cur, saved, popped, classified, fetched >>

\* NextLink that also marks the link visited when it enqueues it
NextLink_markpush ==
  /\ pc = "links"
  /\ links # <<>>
  /\ links' = Tail(links)
  /\ IF is_excluded(Head(links)) \/ Head(links) \in visited_urls
     THEN UNCHANGED << queue, enqueued, visited_urls >>
     ELSE /\ queue' = Append(queue, Item(Head(links), cur.depth + 1))
          /\ enqueued' = Append(enqueued, Item(Head(links), cur.depth + 1))
          /\ visited_urls' = visited_urls \cup {Head(links)}
  /\ pc' = "links"
  /\ UNCHANGED << svars, uvars, mvars, pvars, config, product_urls, cur, saved, popped, classified, fetched >>

\* lines 268-278, one pass of the for loop
NextLink ==
  /\ pc = "links"
  /\ links # <<>>
  /\ links' = Tail(links)
  /\ IF is_excluded(Head(links)) \/ Head(links) \in visited_urls
     THEN UNCHANGED << queue, enqueued >>
     ELSE /\ queue' = Append(queue, Item(Head(links), cur.depth + 1))
          /\ enqueued' = Append(enqueued, Item(Head(links), cur.depth + 1))
  /\ pc' = "links"
  /\ UNCHANGED << svars, uvars, mvars, pvars, config, visited_urls, product_urls, cur, saved, popped, classified, fetched >>

\* the for loop is over; back to the loop test
LinksDone ==
  /\ pc = "links"
  /\ links = <<>>
  /\ pc' = "loop"
  /\ UNCHANGED << svars, uvars, mvars, pvars, config, visited_urls, product_urls, queue, cur, links, saved, history >>

\* lines 287-300: _save_results dumps list(self.product_urls)
SaveResults ==
  /\ pc = "save"
  /\ saved' \in list(product_urls)
  /\ pc' = "done"
  /\ UNCHANGED << svars, uvars, mvars, pvars, config, visited_urls, product_urls, queue, cur, links, history >>

(***************************************************************************)
(* Part III.  EcommerceSpider.                                             *)
(*                                                                         *)
(* The Scrapy engine keeps the scheduled requests and the set of request   *)
(* fingerprints seen; every response is handed to parse_links (the rule    *)
(* callback, and parse_start_url for the start URLs).  parse_links is a    *)
(* generator: an entry of callbacks is one generator in flight, with the   *)
(* hrefs it has not looked at yet.  The engine resumes a generator up to   *)
(* its next yield, generators of different responses interleave at the     *)
(* yields, and once a generator is exhausted the rule extracts the links   *)
(* to follow.                                                              *)
(***************************************************************************)
common_product_patterns ==
  << Dir({"product", "products"}), Dir({"p"}), Dir({"item", "items"}), Dir({"pd"}),
     [kind |-> "pair", first |-> "shop", p |-> "product"], Dir({"good", "goods"}) >>

spider_exclude_patterns ==
  << Pre("login"), Pre("register"), Pre("cart"), Pre("checkout"), Pre("wishlist"),
     Pre("account"), Pre("blog"), Pre("article"), Pre("search"), Pre("contact"),
     Pre("about"), Pre("faq"), Pre("help"), Pre("support"), Pre("privacy"),
     Pre("terms"), Pre("policy"), Pre("sitemap"),
     Ext(".xml"), Ext(".pdf"), Ext(".jpg"), Ext(".png"), Ext(".gif") >>

\* __init__, line 77
all_patterns == common_product_patterns \o site_specific_patterns

\* EcommerceSpider.is_product_url
spider_is_product_url(url) == AnyMatch(all_patterns, url)

LimitReached_gt == sp_max_products # 0 /\ products_found > sp_max_products

\* lines 137 and 163: if self.max_products and self.products_found >= self.max_products
LimitReached == sp_max_products # 0 /\ products_found >= sp_max_products

\* lines 147-161 for one href: the URL parse_links would yield, if any
Candidate(link, response_url) ==
  IF is_valid_url(link) /\ is_same_domain(link, response_url)
     /\ spider_is_product_url(clean_url(normalize_url(link)))
  THEN {clean_url(normalize_url(link))}
  ELSE {}

\* index of the first href of rest that parse_links classifies as a product, or 0
FirstProduct(rest, response_url) ==
  LET hits == {i \in 1..Len(rest) : Candidate(rest[i], response_url) # {}}
  IN IF hits = {} THEN 0 ELSE CHOOSE i \in hits : \A j \in hits : i <= j

SpiderIdle ==
  /\ sp_state = "idle"
  /\ sp_domain = ""
  /\ sp_config_file = NoFile
  /\ allowed_domains = <<>>
  /\ sp_start_urls = <<>>
  /\ site_specific_patterns = <<>>
  /\ sp_max_products = 0
  /\ sp_max_depth = 0
  /\ products_found = 0
  /\ requests = <<>>
  /\ seen = {}
  /\ callbacks = <<>>
  /\ yielded = <<>>
  /\ hrefs_served = 0
  /\ site_links = 0

\* 'https://www.example.com'
ExampleSeed == Url("www.example.com", <<>>, FALSE, <<>>, "")

\* EcommerceSpider.__init__, lines 67-74, and _configure_for_domain
spider_configure(d, configs) ==
  IF d # "" /\ d \in DOMAIN configs
  THEN [allowed_domains |-> <<d>>,
        start_urls |-> get(configs[d], "start_urls", <<DefaultSeed(d)>>),
        site_specific_patterns |-> get(configs[d], "product_patterns", <<>>)]
  ELSE [allowed_domains |-> <<"example.com">>,
        start_urls |-> <<ExampleSeed>>,
        site_specific_patterns |-> <<>>]

\* the configuration sources of the spider: as for the crawler, with at
\* least one start URL in an entry that lists start URLs
SpiderConfigFiles(d) ==
  {f \in ConfigFiles(d, SpiderSeedUrls) :
     f.kind = "json" /\ d \in DOMAIN f.configs => get(f.configs[d], "start_urls", <<Home>>) # <<>>}

\* __init__ and from_crawler, with the configuration source among files and
\* the MAX_DEPTH setting among depths, on a site whose pages carry n hrefs
\* together
SpiderInitOver(files, depths, n) ==
  /\ sp_state = "init"
  /\ sp_domain = "shop.com"
  /\ sp_config_file \in files
  /\ site_links = n
  /\ allowed_domains = spider_configure(sp_domain, load_configs(sp_config_file)).allowed_domains
  /\ sp_start_urls = spider_configure(sp_domain, load_configs(sp_config_file)).start_urls
  /\ site_specific_patterns =
       spider_configure(sp_domain, load_configs(sp_config_file)).site_specific_patterns
  /\ sp_max_products \in 0..MaxProductsBound
  /\ sp_max_depth \in depths
  /\ products_found = 0
  /\ requests = <<>>
  /\ seen = {}
  /\ callbacks = <<>>
  /\ yielded = <<>>
  /\ hrefs_served = 0

\* the spider of shop.com with any configuration; MAX_DEPTH is read into
\* max_depth (from_crawler) and used nowhere else
SpiderInit == SpiderInitOver(SpiderConfigFiles("shop.com"), {MaxDepthBound}, MaxLinks)

CrawlIdle ==
  /\ domain = ""
  /\ config_file = NoFile
  /\ site_hrefs = {}
  /\ start_urls = <<>>
  /\ product_patterns = <<>>
  /\ max_products = 0
  /\ max_depth = 0
  /\ visited_urls = {}
  /\ product_urls = {}
  /\ queue = <<>>
  /\ cur = NoItem
  /\ links = <<>>
  /\ pc = "idle"
  /\ saved = <<>>
  /\ enqueued = <<>>
  /\ popped = <<>>
  /\ classified = <<>>
  /\ fetched = <<>>

RemoveAt(seq, k) == SubSeq(seq, 1, k - 1) \o SubSeq(seq, k + 1, Len(seq))

\* Spider.start_requests: one request per start URL, not filtered
StartRequests ==
  /\ sp_state = "init"
  /\ sp_state' = "running"
  /\ requests' = [i \in 1..Len(sp_start_urls) |-> Item(sp_start_urls[i], 0)]
  /\ seen' = {sp_start_urls[i] : i \in 1..Len(sp_start_urls)}
  /\ UNCHANGED << cvars, uvars, mvars, pvars, sp_config,
                  products_found, callbacks, yielded, hrefs_served >>

\* the scheduler hands out the request scheduled last (its queues are LIFO);
\* the request is downloaded and the response is passed to parse_links, which
\* returns a generator
Download ==
  /\ sp_state = "running"
  /\ requests # <<>>
  /\ \E html \in SeqsUpTo(Hrefs, site_links - hrefs_served) :
       /\ requests' = RemoveAt(requests, Len(requests))
       /\ callbacks' = Append(callbacks, [response |-> requests[Len(requests)].url,
                                          depth |-> requests[Len(requests)].depth,
                                          html |-> html, rest |-> html, done |-> FALSE])
       /\ hrefs_served' = hrefs_served + Len(html)
  /\ UNCHANGED << cvars, uvars, mvars, pvars, sp_state, sp_config,
                  products_found, seen, yielded >>

\* the download fails: the request is dropped
DownloadFail ==
  /\ sp_state = "running"
  /\ requests # <<>>
  /\ requests' = RemoveAt(requests, Len(requests))
  /\ UNCHANGED << cvars, uvars, mvars, pvars, sp_state, sp_config,
                  products_found, seen, callbacks, yielded, hrefs_served >>

\* DuplicatesPipeline.process_item: DropItem for a URL seen before
duplicates_drops(us, item) == item.url \in us

\* OutputPipeline.process_item, lines 37-43
output_process_item(ipd, item) ==
  [d \in DOMAIN ipd \cup {item.domain} |->
     IF d = item.domain THEN get(ipd, d, <<>>) \o <<item>> ELSE ipd[d]]

\* an item handed to the pipelines of ITEM_PIPELINES, DuplicatesPipeline then
\* OutputPipeline; processed records it and whether it was dropped
ThroughPipelines(item) ==
  /\ processed' = Append(processed, [item |-> item, dropped |-> duplicates_drops(urls_seen, item)])
  /\ IF duplicates_drops(urls_seen, item)
     THEN UNCHANGED << urls_seen, items_per_domain >>
     ELSE /\ urls_seen' = urls_seen \cup {item.url}
          /\ items_per_domain' = output_process_item(items_per_domain, item)

\* the ProductURL item of lines 169-174 (discovery_time left out)
ProductURL(url, response_url) ==
  [url |-> url, domain |-> RegDomain(response_url.host), found_on |-> response_url]

\* ParseLinks that yields without counting
ParseLinks_nocount(k) ==
  /\ sp_state = "running"
  /\ ~callbacks[k].done
  /\ LET cb == callbacks[k]
         i == FirstProduct(cb.rest, cb.response)
     IN IF LimitReached \/ i = 0
        THEN /\ callbacks' = [callbacks EXCEPT ![k].done = TRUE, ![k].rest = <<>>]
             /\ UNCHANGED << products_found, yielded, pvars >>
        ELSE LET item == ProductURL(CHOOSE u \in Candidate(cb.rest[i], cb.response) : TRUE,
                                    cb.response)
             IN /\ UNCHANGED products_found
                /\ yielded' = Append(yielded, item)
                /\ ThroughPipelines(item)
                /\ callbacks' = [callbacks EXCEPT ![k].rest = SubSeq(cb.rest, i + 1, Len(cb.rest))]
  /\ UNCHANGED << cvars, uvars, mvars, sp_state, sp_config, requests, seen, hrefs_served >>

\* parse_links, lines 134-173, from the point where generator k stands to its
\* next yield or to its end: the limit test of line 137 on entry, then the
\* for loop up to the next product link, where line 163 tests the limit again.
\* The engine hands the item yielded to the pipelines before it resumes the
\* generator.
ParseLinks(k) ==
  /\ sp_state = "running"
  /\ ~callbacks[k].done
  /\ LET cb == callbacks[k]
         i == FirstProduct(cb.rest, cb.response)
     IN IF LimitReached \/ i = 0
        THEN /\ callbacks' = [callbacks EXCEPT ![k].done = TRUE, ![k].rest = <<>>]
             /\ UNCHANGED << products_found, yielded, pvars >>
        ELSE LET item == ProductURL(CHOOSE u \in Candidate(cb.rest[i], cb.response) : TRUE,
                                    cb.response)
             IN /\ products_found' = products_found + 1
                /\ yielded' = Append(yielded, item)
                /\ ThroughPipelines(item)
                /\ callbacks' = [callbacks EXCEPT ![k].rest = SubSeq(cb.rest, i + 1, Len(cb.rest))]
  /\ UNCHANGED << cvars, uvars, mvars, sp_state, sp_config, requests, seen, hrefs_served >>

\* the links the rule of _set_rules extracts from a page: LinkExtractor with
\* deny=exclude_patterns, each link once, offsite links dropped
RECURSIVE RuleLinks(_, _, _)
RuleLinks(html, response_url, acc) ==
  IF html = <<>> THEN acc
  ELSE LET l == Head(html)
       IN IF /\ is_valid_url(l)
             /\ is_same_domain(l, response_url)
             /\ ~AnyMatch(spider_exclude_patterns, l)
             /\ \A j \in 1..Len(acc) : acc[j] # l
          THEN RuleLinks(Tail(html), response_url, Append(acc, l))
          ELSE RuleLinks(Tail(html), response_url, acc)

RECURSIVE Unseen(_, _)
Unseen(ls, s) ==
  IF ls = <<>> THEN <<>>
  ELSE IF normalize_url(Head(ls)) \in s THEN Unseen(Tail(ls), s)
       ELSE <<Head(ls)>> \o Unseen(Tail(ls), s)

\* generator k is exhausted: the rule (follow=True) schedules the links of the
\* page that the duplicate filter has not seen
Follow(k) ==
  /\ sp_state = "running"
  /\ callbacks[k].done
  /\ LET cb == callbacks[k]
         new == Unseen(RuleLinks(cb.html, cb.response, <<>>), seen)
     IN /\ requests' = requests \o [i \in 1..Len(new) |-> Item(new[i], cb.depth + 1)]
        /\ seen' = seen \cup {normalize_url(new[i]) : i \in 1..Len(new)}
  /\ callbacks' = RemoveAt(callbacks, k)
  /\ UNCHANGED << cvars, uvars, mvars, pvars, sp_state, sp_config,
                  products_found, yielded, hrefs_served >>

\* nothing scheduled, nothing in flight: the engine closes the spider
CloseSpider ==
  /\ sp_state = "running"
  /\ requests = <<>>
  /\ callbacks = <<>>
  /\ sp_state' = "closed"
  /\ UNCHANGED << cvars, uvars, mvars, pvars, sp_config,
                  products_found, requests, seen, callbacks, yielded, hrefs_served >>

(***************************************************************************)
(* Part IV.  Canonicalization, clean_url(normalize_url(.)), applied to     *)
(* given URLs: to a URL cn_a and a URL cn_b that differs from it only in   *)
(* its fragment or in utm_ parameters, and once more to the result.        *)
(***************************************************************************)
MaxQuery == 7

Fragments == {"", "top"}

CanonUrls ==
  {Url("www.shop.com", <<"p">>, FALSE, q, f) : q \in SeqsUpTo(QChars, MaxQuery), f \in Fragments}

\* the parameters of a query string: q.split('&')
RECURSIVE Params(_)
Params(q) ==
  LET k == SkipValue(q, 1)
  IN IF k > Len(q) THEN <<q>>
     ELSE <<SubSeq(q, 1, k - 1)>> \o Params(SubSeq(q, k + 1, Len(q)))

\* a parameter whose key begins with utm_
IsNoise(param) == param # <<>> /\ param[1] = "utm_"

NonNoiseParams(q) == IF q = <<>> THEN <<>> ELSE SelectSeq(Params(q), LAMBDA x : ~IsNoise(x))

RECURSIVE Join(_)
Join(ps) ==
  IF ps = <<>> THEN <<>>
  ELSE IF Len(ps) = 1 THEN ps[1]
       ELSE ps[1] \o <<"&">> \o Join(Tail(ps))

\* u without its fragment and its utm_ parameters
WithoutNoise(u) == [u EXCEPT !.fragment = "", !.query = Join(NonNoiseParams(u.query))]

DifferOnlyInNoise(u, v) ==
  /\ u.scheme = v.scheme /\ u.host = v.host /\ u.path = v.path /\ u.slash = v.slash
  /\ NonNoiseParams(u.query) = NonNoiseParams(v.query)

CanonInit ==
  /\ cn_pc = "in"
  /\ cn_a \in CanonUrls
  /\ cn_b \in {WithoutNoise(cn_a), [cn_a EXCEPT !.fragment = "sec"]}
  /\ cn_ca = Home
  /\ cn_cb = Home
  /\ cn_cca = Home

\* url = clean_url(normalize_url(url)), for both URLs
Canonicalize ==
  /\ cn_pc = "in"
  /\ cn_ca' = clean_url(normalize_url(cn_a))
  /\ cn_cb' = clean_url(normalize_url(cn_b))
  /\ cn_pc' = "out"
  /\ UNCHANGED << cvars, svars, mvars, pvars, cn_a, cn_b, cn_cca >>

\* the same applied to the canonical form of cn_a
Recanonicalize ==
  /\ cn_pc = "out"
  /\ cn_cca' = clean_url(normalize_url(cn_ca))
  /\ cn_pc' = "again"
  /\ UNCHANGED << cvars, svars, mvars, pvars, cn_a, cn_b, cn_ca, cn_cb >>

(***************************************************************************)
(* Part V.  direct_crawler.main: the loop over the domains of a run and     *)
(* combine_results.                                                        *)
(*                                                                         *)
(* A file of the output directory is its name, as the sequence of the      *)
(* parts that "_" separates, and its data, the list of URLs dumped in it;  *)
(* `domain` records which domain's crawl wrote it.  What the crawl of one  *)
(* domain does is Part II; here it either saves a result file or raises.   *)
(* The domains of a run are distinct, so the file names of one run are.    *)
(***************************************************************************)
MaxDomains == 3

MainDomains == {"example.com", "example.org", "shop.com"}

\* domain.split('.')
Labels(d) ==
  CASE d = "example.com" -> <<"example", "com">>
    [] d = "example.org" -> <<"example", "org">>
    [] d = "shop.com" -> <<"shop", "com">>

\* datetime.now().strftime('%Y%m%d_%H%M%S') at clock reading t
Hms(t) ==
  CASE t = 0 -> "120000" [] t = 1 -> "120001" [] t = 2 -> "120002"
    [] t = 3 -> "120003" [] t = 4 -> "120004" [] OTHER -> "120005"
Timestamp(t) == <<"20260101", Hms(t)>>

\* f"{self.domain.replace('.', '_')}_{timestamp}", split at "_"
FileName(d, t) == Labels(d) \o Timestamp(t)

File(name, data, d) == [name |-> name, data |-> data, domain |-> d]

ProductOf(d) == Url(WwwHost(d), <<"products", "1">>, FALSE, <<>>, "")

\* list(self.product_urls) at the end of a crawl of d
CrawlResults(d) == {<<>>, <<ProductOf(d)>>}

\* open(filepath, 'w'): a file of that name is replaced
WriteFile(dir, f) == {g \in dir : g.name # f.name} \cup {f}

\* files an earlier run can have left in the output directory
OldFiles ==
  {File(Labels("example.com") \o <<"20251231", "120000">>, <<ProductOf("example.com")>>,
        "example.com"),
   File(<<"all", "domains", "20251231", "120000">>, <<>>, "")}

Distinct(seq) == \A i, j \in 1..Len(seq) : i # j => seq[i] # seq[j]

MainInit ==
  /\ m_pc = "start"
  /\ domains_to_crawl \in {ds \in SeqsUpTo(MainDomains, MaxDomains) : Distinct(ds)}
  /\ m_i = 1
  /\ clock = 0
  /\ output_dir \in SUBSET OldFiles
  /\ m_log = <<>>
  /\ combined = EmptyDict

\* main, lines 333-337: no domain to crawl, return; else enter the loop
MainStart ==
  /\ m_pc = "start"
  /\ m_pc' = IF domains_to_crawl = <<>> THEN "done" ELSE "loop"
  /\ UNCHANGED << cvars, svars, uvars, pvars, domains_to_crawl, m_i, clock, output_dir,
                  m_log, combined >>

\* lines 340-351, one pass of the for loop: the crawler is constructed,
\* crawl() runs and _save_results writes the domain's file
CrawlSaved ==
  /\ m_pc = "loop"
  /\ m_i <= Len(domains_to_crawl)
  /\ \E data \in CrawlResults(domains_to_crawl[m_i]) :
       output_dir' = WriteFile(output_dir,
                               File(FileName(domains_to_crawl[m_i], clock), data,
                                    domains_to_crawl[m_i]))
  /\ m_log' = Append(m_log, [domain |-> domains_to_crawl[m_i], outcome |-> "saved",
                              name |-> FileName(domains_to_crawl[m_i], clock)])
  /\ m_i' = m_i + 1
  /\ clock' = clock + 1
  /\ UNCHANGED << cvars, svars, uvars, pvars, m_pc, domains_to_crawl, combined >>

\* CrawlRaised that lets the exception leave main
CrawlRaised_abort ==
  /\ m_pc = "loop"
  /\ m_i <= Len(domains_to_crawl)
  /\ m_log' = Append(m_log, [domain |-> domains_to_crawl[m_i], outcome |-> "raised",
                              name |-> <<>>])
  /\ m_pc' = "done"
  /\ clock' = clock + 1
  /\ UNCHANGED << cvars, svars, uvars, pvars, domains_to_crawl, m_i, output_dir, combined >>

\* lines 340-353, one pass of the for loop: the constructor or crawl() raises,
\* the except clause logs the error and the loop goes on
CrawlRaised ==
  /\ m_pc = "loop"
  /\ m_i <= Len(domains_to_crawl)
  /\ m_log' = Append(m_log, [domain |-> domains_to_crawl[m_i], outcome |-> "raised",
                              name |-> <<>>])
  /\ m_i' = m_i + 1
  /\ clock' = clock + 1
  /\ UNCHANGED << cvars, svars, uvars, pvars, m_pc, domains_to_crawl, output_dir, combined >>

\* the orders in which Path.glob can list the files of a directory
RECURSIVE Orders(_)
Orders(S) ==
  IF S = {} THEN {<<>>}
  ELSE UNION {{<<f>> \o o : o \in Orders(S \ {f})} : f \in S}

\* results[key].extend(data) on a defaultdict(list)
Extend(results, key, data) ==
  [k \in DOMAIN results \cup {key} |->
     IF k = key THEN get(results, key, <<>>) \o data ELSE results[k]]

\* combine_results, lines 370-385: the loop over the files
RECURSIVE CombineFiles(_, _)
CombineFiles(files, results) ==
  IF files = <<>> THEN results
  ELSE LET parts == Head(files).name
       IN IF Len(parts) >= 2 /\ parts[1] = "all" /\ parts[2] = "domains"
          THEN CombineFiles(Tail(files), results)
          ELSE IF Len(parts) >= 2
               THEN CombineFiles(Tail(files), Extend(results, parts[1], Head(files).data))
               ELSE CombineFiles(Tail(files), results)

\* lines 355-356 and combine_results: nothing is written when the directory
\* has no JSON file, else the combined mapping is dumped
Combine ==
  /\ m_pc = "loop"
  /\ m_i > Len(domains_to_crawl)
  /\ IF output_dir = {}
     THEN UNCHANGED combined
     ELSE \E files \in Orders(output_dir) : combined' = CombineFiles(files, EmptyDict)
  /\ m_pc' = "done"
  /\ UNCHANGED << cvars, svars, uvars, pvars, domains_to_crawl, m_i, clock, output_dir, m_log >>

(***************************************************************************)
(* Part VI.  The item pipelines.  Scrapy passes every item the spider      *)
(* yields through the pipelines of ITEM_PIPELINES in the order of their    *)
(* numbers, DuplicatesPipeline (300) then OutputPipeline (500); a DropItem *)
(* raised by one pipeline ends the processing of the item.                 *)
(***************************************************************************)
MaxItems == 3

\* the ProductURL items parse_links can yield: url is on the domain of the
\* page it was found on (line 154) and domain is get_domain(response.url)
ItemsYieldable ==
  {it \in {[url |-> u, domain |-> RegDomain(r.host), found_on |-> r] :
             u \in {Prod1, ProdLogin, OtherProd}, r \in {Home, Cat, OtherHome}} :
     is_same_domain(it.url, it.found_on)}

PipelineInit ==
  /\ urls_seen = {}
  /\ items_per_domain = EmptyDict
  /\ processed = <<>>

\* ProcessItem with a DuplicatesPipeline that records nothing
ProcessItem_norecord(item) ==
  /\ Len(processed) < MaxItems
  /\ processed' = Append(processed, [item |-> item, dropped |-> duplicates_drops(urls_seen, item)])
  /\ IF duplicates_drops(urls_seen, item)
     THEN UNCHANGED << urls_seen, items_per_domain >>
     ELSE /\ UNCHANGED urls_seen
          /\ items_per_domain' = output_process_item(items_per_domain, item)
  /\ UNCHANGED << cvars, svars, uvars, mvars >>

\* one item through the pipelines
ProcessItem(item) ==
  /\ Len(processed) < MaxItems
  /\ ThroughPipelines(item)
  /\ UNCHANGED << cvars, svars, uvars, mvars >>

vars == << cvars, svars, uvars, mvars, pvars >>

CanonIdle ==
  /\ cn_pc = "idle"
  /\ cn_a = Home
  /\ cn_b = Home
  /\ cn_ca = Home
  /\ cn_cb = Home
  /\ cn_cca = Home

MainIdle ==
  /\ m_pc = "idle"
  /\ domains_to_crawl = <<>>
  /\ m_i = 0
  /\ clock = 0
  /\ output_dir = {}
  /\ m_log = <<>>
  /\ combined = EmptyDict

PipelineIdle ==
  /\ urls_seen = {}
  /\ items_per_domain = EmptyDict
  /\ processed = <<>>

Init == CrawlInit /\ SpiderIdle /\ CanonIdle /\ MainIdle /\ PipelineIdle

Next ==
  \/ Seed
  \/ Pop
  \/ LoopExit
  \/ Classify
  \/ DepthCutoff
  \/ FetchOk
  \/ FetchFail
  \/ NextLink
  \/ LinksDone
  \/ SaveResults

Spec == Init /\ [][Next]_vars

\* crawl() is a sequential program: a step that can be taken is taken
SpecFair == Init /\ [][Next]_vars /\ WF_vars(Next)

SpiderNext ==
  \/ StartRequests
  \/ Download
  \/ DownloadFail
  \/ \E k \in 1..Len(callbacks) : ParseLinks(k)
  \/ \E k \in 1..Len(callbacks) : Follow(k)
  \/ CloseSpider

InitSpider == CrawlIdle /\ SpiderInit /\ CanonIdle /\ MainIdle /\ PipelineIdle

SpecSpider == InitSpider /\ [][SpiderNext]_vars

\* the spider configured with the start URL https://www.shop.com/ and any
\* MAX_DEPTH on a site that serves one more href, so that a page can repeat a link and still
\* carry another
InitSpiderRepeats ==
  /\ CrawlIdle /\ CanonIdle /\ MainIdle /\ PipelineIdle
  /\ SpiderInitOver({JsonFile([x \in {"shop.com"} |-> Entry(<<Home>>, <<>>)])},
                    0..MaxDepthBound, MaxLinks + 1)

SpecSpiderRepeats == InitSpiderRepeats /\ [][SpiderNext]_vars

\* the crawl of shop.com with any configuration, on any site
InitAnySite ==
  CrawlInitOver(AnySeedUrls, AnyHrefs) /\ SpiderIdle /\ CanonIdle /\ MainIdle /\ PipelineIdle

SpecAnySite == InitAnySite /\ [][Next]_vars

\* the crawl of shop.com on a site whose pages carry a malformed href
InitMalformed ==
  CrawlInitOver(SpiderSeedUrls, MalformedHrefs) /\ SpiderIdle /\ CanonIdle /\ MainIdle /\ PipelineIdle

SpecMalformed == InitMalformed /\ [][Next]_vars

\* the crawl of shop.com with start URLs that the site's pages link to
InitLinkedSeeds ==
  CrawlInitOver(LinkedSeedUrls, Hrefs) /\ SpiderIdle /\ CanonIdle /\ MainIdle /\ PipelineIdle

SpecLinkedSeeds == InitLinkedSeeds /\ [][Next]_vars

CanonNext ==
  \/ Canonicalize
  \/ Recanonicalize

InitCanon == CrawlIdle /\ SpiderIdle /\ CanonInit /\ MainIdle /\ PipelineIdle

SpecCanon == InitCanon /\ [][CanonNext]_vars

MainNext ==
  \/ MainStart
  \/ CrawlSaved
  \/ CrawlRaised
  \/ Combine

InitMain == CrawlIdle /\ SpiderIdle /\ CanonIdle /\ MainInit /\ PipelineIdle

SpecMain == InitMain /\ [][MainNext]_vars

PipelineNext == \E item \in ItemsYieldable : ProcessItem(item)

InitPipeline == CrawlIdle /\ SpiderIdle /\ CanonIdle /\ MainIdle /\ PipelineInit

SpecPipeline == InitPipeline /\ [][PipelineNext]_vars

TypeOK ==
  /\ pc \in {"idle", "seed", "loop", "classify", "depth", "links", "save", "done"}
  /\ visited_urls \subseteq (Hrefs \cup SeedUrls)
  /\ product_urls \subseteq visited_urls
  /\ sp_state \in {"idle", "init", "running", "closed"}
  /\ products_found \in Nat

(***************************************************************************)
(* Properties of SimpleEcommerceCrawler.crawl                              *)
(***************************************************************************)
AllUrls == Hrefs \cup SeedUrls

UrlsOf(items) == {items[i].url : i \in 1..Len(items)}

CountUrl(items, u) == Cardinality({i \in 1..Len(items) : items[i].url = u})

\* C1: the number of URLs in product_urls never exceeds max_products, in every
\* state of the crawl and in the result that is saved, for every
\* max_products >= 0.
C1_ProductLimit ==
  /\ Cardinality(product_urls) <= max_products
  /\ Len(saved) <= max_products

C1_Witness ==
  /\ pc = "done"
  /\ max_products = 2
  /\ Len(saved) = 2
  /\ queue # <<>>

C4_SinglePass ==
  /\ \A u \in AllUrls : CountUrl(classified, u) <= 1 /\ CountUrl(fetched, u) <= 1
  /\ pc = "links" => \E i \in 1..Len(fetched) : fetched[i].url = cur.url /\ fetched[i].ok

C4_Witness ==
  \E i \in 1..Len(fetched) :
    /\ ~fetched[i].ok
    /\ CountUrl(popped, fetched[i].url) >= 2
    /\ Len(popped) > 3
    /\ pc = "done"

\* C5: the depths of the items popped from the queue form a non-decreasing
\* sequence.
C5_DepthMonotone ==
  \A i, j \in 1..Len(popped) : i < j => popped[i].depth <= popped[j].depth

C5_Witness ==
  /\ Len(popped) >= 4
  /\ popped[1].depth = 0
  /\ popped[Len(popped)].depth = 2
  /\ \E i \in 1..Len(fetched) : ~fetched[i].ok

\* C6: fetch_page is never called for an item whose depth is >= max_depth, and
\* no link is enqueued on behalf of such an item.
C6_NoFetchAtMaxDepth ==
  /\ \A i \in 1..Len(fetched) : fetched[i].depth < max_depth
  /\ pc = "links" => cur.depth < max_depth

C6_Witness ==
  /\ max_depth >= 1
  /\ pc = "loop"
  /\ cur.depth >= max_depth
  /\ cur.url \in visited_urls
  /\ cur.url \notin UrlsOf(fetched)

\* C7: an item is classified before the depth cutoff is applied: every
\* classified URL that matches a product pattern is in product_urls whatever
\* its depth, and the item at the depth test has just been classified.
C7_ClassifiedBeforeCutoff ==
  /\ \A i \in 1..Len(classified) :
       is_product(product_patterns, classified[i].url) => classified[i].url \in product_urls
  /\ \A i \in 1..Len(popped) :
       (popped[i].depth >= max_depth /\ popped[i].url \in visited_urls /\
          (pc = "classify" => popped[i].url # cur.url))
         => popped[i].url \in UrlsOf(classified)

C7_Witness ==
  \E i \in 1..Len(classified) :
    /\ classified[i].depth >= max_depth
    /\ max_depth >= 1
    /\ is_product(product_patterns, classified[i].url)
    /\ classified[i].url \in product_urls
    /\ classified[i].url \notin UrlsOf(fetched)
    /\ pc = "loop"

\* The link graph as far as the crawl has seen it: the links extract_links
\* returned for a fetched page.  A page is fetched at most once, so choosing a
\* page's content when it is fetched is choosing the graph beforehand.
KnownLinks(u) ==
  IF \E i \in 1..Len(fetched) : fetched[i].url = u /\ fetched[i].ok
  THEN (CHOOSE r \in {fetched[i] : i \in 1..Len(fetched)} : r.url = u /\ r.ok).links
  ELSE <<>>

\* URLs within d links of the seeds, through links that are not excluded
RECURSIVE ReachWithin(_)
ReachWithin(d) ==
  IF d = 0 THEN {start_urls[i] : i \in 1..Len(start_urls)}
  ELSE LET prev == ReachWithin(d - 1)
       IN prev \cup {l \in UNION {{KnownLinks(u)[k] : k \in 1..Len(KnownLinks(u))} : u \in prev} :
                       ~is_excluded(l)}

ReachableProducts == {u \in ReachWithin(max_depth) : is_product(product_patterns, u)}

AllFetchesOk == \A i \in 1..Len(fetched) : fetched[i].ok

\* C8: if all fetches succeed, max_products >= 1 and at least max_products
\* product URLs are reachable from the seeds within max_depth through
\* non-excluded links, the crawl ends with exactly max_products product URLs
\* (the queue may be non-empty then).  When the crawl ends with an empty queue
\* every page within max_depth - 1 links has been fetched, so the graph seen is
\* the whole graph within max_depth of the seeds.
C8_ExactlyMaxProducts ==
  (/\ pc = "done"
   /\ max_products >= 1
   /\ AllFetchesOk
   /\ Cardinality(ReachableProducts) >= max_products)
  => Len(saved) = max_products

C8_Witness ==
  /\ pc = "done"
  /\ max_products = 2
  /\ AllFetchesOk
  /\ Len(fetched) = 2
  /\ Cardinality(ReachableProducts) > max_products
  /\ Len(saved) = max_products
  /\ queue # <<>>

\* C9 as stated: no URL that matches an exclude pattern is ever in
\* product_urls, seed URLs included.
C9_NoExcludedProduct ==
  \A u \in product_urls : ~is_excluded(u)

IsCanonical(u) ==
  /\ u.fragment = ""
  /\ u.query # <<>> => \A i \in 1..Len(Params(u.query)) : ~IsNoise(Params(u.query)[i])

\* C13 as stated: every URL ever placed in the queue or in visited_urls is
\* canonical, fragment-free and without utm_ parameters, the seed URLs of the
\* configuration included.
C13_CanonicalQueue ==
  \A u \in UrlsOf(enqueued) \cup UrlsOf(queue) \cup visited_urls : IsCanonical(u)

\* C14 as stated: a link whose scheme is neither http nor https is never
\* returned by extract_links and never enqueued, classified or fetched.
C14_HttpOnly ==
  \A u \in UrlsOf(enqueued) \cup UrlsOf(classified) \cup UrlsOf(fetched)
           \cup {links[i] : i \in 1..Len(links)} :
    u.scheme \in {"http", "https"}

\* C15 as stated: every URL enqueued from link discovery (at depth >= 1) has
\* the registrable domain of the crawl's configured domain, self.domain.
C15_CrawlDomainOnly ==
  \A i \in 1..Len(enqueued) :
    enqueued[i].depth >= 1 => RegDomain(enqueued[i].url.host) = domain

\* the configuration source is missing or corrupt, or has no entry for the domain
NoConfiguration == config_file.kind # "json" \/ domain \notin DOMAIN config_file.configs

\* C16: when the configuration source is missing, corrupt or has no entry for
\* the domain, the crawler is configured with the single seed
\* https://www.<domain>/ and no domain-specific pattern, and crawl() runs to
\* completion and saves its result.
C16_FallbackCrawl ==
  /\ [](NoConfiguration => start_urls = <<DefaultSeed(domain)>> /\ product_patterns = <<>>)
  /\ (NoConfiguration ~> (pc = "done" /\ Range(saved) = product_urls))

C16_Witness ==
  /\ config_file = CorruptFile
  /\ pc = "done"
  /\ saved = <<Prod1>>
  /\ UrlsOf(popped) = {DefaultSeed(domain), Prod1}

\* the product URLs in the order in which crawl() added them to product_urls
Discovered ==
  LET ps == SelectSeq(classified, LAMBDA it : is_product(product_patterns, it.url))
  IN [i \in 1..Len(ps) |-> ps[i].url]

LimitHit == Cardinality(product_urls) >= max_products

\* C25: once the size of product_urls has reached max_products in the crawl
\* loop, no further item is popped, classified or fetched and no further link
\* is enqueued; the page of the product URL that reached the limit is not
\* fetched.  (The seeds are put into the queue before the loop is entered.)
C25_StopAtLimit ==
  /\ [][(pc # "seed" /\ LimitHit) =>
          /\ popped' = popped
          /\ classified' = classified
          /\ fetched' = fetched
          /\ enqueued' = enqueued
          /\ queue' = queue]_vars
  /\ []((LimitHit /\ classified # <<>>) =>
          classified[Len(classified)].url \notin UrlsOf(fetched))

\* C27: for every link graph the site can serve, every max_depth >= 0 and
\* every pattern of fetch successes and failures crawl() terminates: the main
\* loop is eventually left, with the queue empty or the product limit
\* reached, although a URL can be linked from several pages and pages can link
\* back to pages already visited.
C27_Terminates ==
  /\ <>(pc = "done")
  /\ [](pc \in {"save", "done"} => (queue = <<>> \/ LimitHit))

C27_Witness ==
  /\ pc = "done"
  /\ max_depth = 2
  /\ queue = <<>>
  /\ ~LimitHit
  /\ \E i \in 1..Len(fetched) : ~fetched[i].ok
  /\ \E i \in 1..Len(fetched) : fetched[i].url \in Range(fetched[i].links)

\* C28: every item in the queue has 0 <= depth <= max_depth in every
\* reachable state; no item with a depth greater than max_depth is ever
\* enqueued, so every URL that was classified in the crawl lies within
\* max_depth links of the seeds.
C28_QueueDepthBound ==
  /\ \A i \in 1..Len(queue) : 0 <= queue[i].depth /\ queue[i].depth <= max_depth
  /\ \A i \in 1..Len(enqueued) : 0 <= enqueued[i].depth /\ enqueued[i].depth <= max_depth
  /\ \A i \in 1..Len(classified) : classified[i].depth <= max_depth
  /\ pc = "done" => UrlsOf(classified) \subseteq ReachWithin(max_depth)

C28_Witness ==
  /\ pc = "done"
  /\ max_depth = 1
  /\ queue = <<>>
  /\ Len(enqueued) = 3
  /\ Len(classified) = 3
  /\ classified[3].depth = 1
  /\ Len(fetched) = 1

\* C29: a URL that is enqueued several times at different depths is
\* classified at the smallest depth at which it was ever enqueued, and when
\* that depth is below max_depth its page is fetched (unless the crawl stopped
\* at the product limit on that very URL): a deeper copy never leaves it
\* unexpanded.
C29_SmallestDepthFirst ==
  /\ \A i \in 1..Len(classified) : \A j \in 1..Len(enqueued) :
       enqueued[j].url = classified[i].url => classified[i].depth <= enqueued[j].depth
  /\ pc = "done" =>
       \A i \in 1..Len(classified) :
         (classified[i].depth < max_depth /\ ~(LimitHit /\ i = Len(classified)))
           => classified[i].url \in UrlsOf(fetched)

C29_Witness ==
  /\ pc = "done"
  /\ max_depth = 1
  /\ Item(Cat, 0) \in Range(enqueued)
  /\ Item(Cat, 1) \in Range(enqueued)
  /\ Item(Cat, 0) \in Range(classified)
  /\ \E i \in 1..Len(fetched) : fetched[i].url = Cat /\ fetched[i].ok /\ fetched[i].depth = 0

\* C26 as stated: when link extraction fails on a fetched page the page is
\* treated as having zero links: no link of that page is enqueued, the page
\* stays in visited_urls and the crawl goes on with the next queue item.
C26_ZeroLinksOnFailure ==
  \A i \in 1..Len(fetched) :
    fetched[i].raised =>
      /\ fetched[i].links = <<>>
      /\ fetched[i].url \in visited_urls
      /\ pc # "links" \/ cur.url # fetched[i].url \/ links = <<>>

C25_Witness ==
  /\ pc = "done"
  /\ max_products = 2
  /\ LimitHit
  /\ queue # <<>>
  /\ Len(fetched) = 1
  /\ classified[Len(classified)].url = Prod1
  /\ Prod1 \in UrlsOf(enqueued)
  /\ Prod1 \notin UrlsOf(fetched)

(***************************************************************************)
(* Properties of EcommerceSpider.parse_links                               *)
(***************************************************************************)
\* C10 as stated: no ProductURL item is ever yielded whose url matches one of
\* exclude_patterns.
C10_NoExcludedYield ==
  \A i \in 1..Len(yielded) : ~AnyMatch(spider_exclude_patterns, yielded[i].url)

\* C17 as stated: a spider constructed for a domain d that has no entry in the
\* loaded configuration (or whose configuration failed to load) starts from
\* https://www.<d>/ with d as its allowed domain and no site-specific pattern.
C17_SpiderFallback ==
  (sp_state # "idle" /\
     (sp_config_file.kind # "json" \/ sp_domain \notin DOMAIN sp_config_file.configs))
  => /\ sp_start_urls = <<DefaultSeed(sp_domain)>>
     /\ allowed_domains = <<sp_domain>>
     /\ site_specific_patterns = <<>>

\* C22: with a product limit set (max_products >= 1), under any interleaving
\* of the parse_links generators of concurrently downloaded pages, the number
\* of items yielded never exceeds max_products; products_found counts them.
C22_YieldLimit ==
  sp_max_products >= 1 =>
    /\ Len(yielded) <= sp_max_products
    /\ products_found = Len(yielded)

C22_Witness ==
  /\ sp_max_products = 1
  /\ Len(yielded) = 1
  /\ Len(callbacks) = 2
  /\ \A k \in 1..2 :
       /\ callbacks[k].done
       /\ FirstProduct(callbacks[k].html, callbacks[k].response) # 0

\* C23 as stated: with MAX_DEPTH = m the spider never requests a page whose
\* link distance from the start URLs is greater than m.
C23_SpiderDepthLimit ==
  /\ \A i \in 1..Len(requests) : requests[i].depth <= sp_max_depth
  /\ \A k \in 1..Len(callbacks) : callbacks[k].depth <= sp_max_depth

\* the URLs OutputPipeline has recorded
RecordedUrls ==
  UNION {{items_per_domain[d][i].url : i \in 1..Len(items_per_domain[d])} :
           d \in DOMAIN items_per_domain}

\* C30 as stated: in every reachable state the number of distinct URLs
\* recorded by OutputPipeline is <= products_found <= max_products.
C30_Original ==
  /\ Cardinality(RecordedUrls) <= products_found
  /\ products_found <= sp_max_products

\* C30 amended: products_found counts every item yielded, duplicates
\* included, and the pipelines record the distinct URLs among them; with a
\* product limit set (max_products >= 1) products_found <= max_products.
\* With max_products = 0 there is no limit and products_found is unbounded.
C30_Amended ==
  /\ products_found = Len(processed)
  /\ RecordedUrls = {yielded[i].url : i \in 1..Len(yielded)}
  /\ Cardinality(RecordedUrls) <= products_found
  /\ sp_max_products >= 1 => products_found <= sp_max_products

\* the spider has stopped emitting at the limit with fewer distinct products
\* recorded, and a page it downloaded links to a product it never yielded
C30_Witness ==
  /\ sp_max_products = 2
  /\ products_found = 2
  /\ Cardinality(RecordedUrls) = 1
  /\ \E k \in 1..Len(callbacks) :
       /\ callbacks[k].done
       /\ \E i \in 1..Len(callbacks[k].html) :
            /\ Candidate(callbacks[k].html[i], callbacks[k].response) # {}
            /\ Candidate(callbacks[k].html[i], callbacks[k].response) \cap RecordedUrls = {}

(***************************************************************************)
(* Properties of the URL helpers                                           *)
(***************************************************************************)
\* C11 as stated: two URLs that differ only in their fragment or in query
\* parameters whose key begins with utm_, in any position of the query
\* string, have the same canonical form.
C11_SameCanonical ==
  (cn_pc \in {"out", "again"} /\ DifferOnlyInNoise(cn_a, cn_b)) => cn_ca = cn_cb

\* C12 as stated: canonicalization is idempotent, a further application to a
\* canonical form returns it unchanged.
C12_Idempotent ==
  cn_pc = "again" => cn_cca = cn_ca

(***************************************************************************)
(* Properties of direct_crawler.main and combine_results                   *)
(***************************************************************************)
\* C18: an exception raised while constructing or crawling one domain does
\* not stop the run: the loop goes on to the next domain whatever the outcome
\* (the run reaches combine_results only when every domain of the list has
\* been attempted, in order), and the file of every domain crawled earlier
\* stays in the output directory.
C18_FailureIsolated ==
  /\ m_pc = "loop" => Len(m_log) = m_i - 1
  /\ (m_pc = "done" /\ domains_to_crawl # <<>>) => Len(m_log) = Len(domains_to_crawl)
  /\ \A k \in 1..Len(m_log) :
       /\ m_log[k].domain = domains_to_crawl[k]
       /\ m_log[k].outcome = "saved" =>
            \E f \in output_dir : f.name = m_log[k].name /\ f.domain = m_log[k].domain

C18_Witness ==
  /\ m_pc = "done"
  /\ Len(m_log) = 3
  /\ m_log[1].outcome = "saved"
  /\ m_log[2].outcome = "raised"
  /\ m_log[3].outcome = "saved"
  /\ \E f \in output_dir : f.name = m_log[1].name /\ f.data # <<>>

\* the key combine_results files a result file under
KeyOf(f) == f.name[1]

ResultFiles == {f \in output_dir : f.domain # ""}

\* C19 as stated: in the combined mapping two distinct crawled domains get
\* two distinct keys, and every URL listed under a key was found by the crawl
\* of one domain, the domain of that key.
C19_NoCrossPollution ==
  m_pc = "done" =>
    /\ \A f, g \in ResultFiles : f.domain # g.domain => KeyOf(f) # KeyOf(g)
    /\ \A k \in DOMAIN combined :
         \E d \in MainDomains :
           \A i \in 1..Len(combined[k]) :
             \E f \in ResultFiles : f.domain = d /\ KeyOf(f) = k /\
               \E j \in 1..Len(f.data) : f.data[j] = combined[k][i]

\* C21 as stated: when several result files belong to the same domain, each
\* URL appears exactly once in that domain's combined list.
C21_CombinedUnion ==
  m_pc = "done" =>
    \A k \in DOMAIN combined :
      \A i, j \in 1..Len(combined[k]) : i # j => combined[k][i] # combined[k][j]

(***************************************************************************)
(* Properties of the item pipelines                                        *)
(***************************************************************************)
\* the items of domain d that went through both pipelines, in order
Recorded(d) == SelectSeq(processed, LAMBDA p : ~p.dropped /\ p.item.domain = d)

\* C20: an item is appended to items_per_domain[domain] if and only if its
\* URL is not already recorded for that domain; no per-domain list holds a
\* URL twice; a dropped duplicate changes the state of neither pipeline
\* (urls_seen and items_per_domain hold exactly the items not dropped).
C20_RecordOnce ==
  /\ \A k \in 1..Len(processed) :
       processed[k].dropped <=>
         \E j \in 1..(k - 1) : /\ ~processed[j].dropped
                               /\ processed[j].item.url = processed[k].item.url
                               /\ processed[j].item.domain = processed[k].item.domain
  /\ \A d \in DOMAIN items_per_domain :
       /\ items_per_domain[d] = [i \in 1..Len(Recorded(d)) |-> Recorded(d)[i].item]
       /\ \A i, j \in 1..Len(items_per_domain[d]) :
            i # j => items_per_domain[d][i].url # items_per_domain[d][j].url
  /\ \A k \in 1..Len(processed) :
       ~processed[k].dropped => processed[k].item.domain \in DOMAIN items_per_domain
  /\ urls_seen = {processed[k].item.url : k \in {i \in 1..Len(processed) : ~processed[i].dropped}}

C20_Witness ==
  /\ Len(processed) = 3
  /\ ~processed[1].dropped
  /\ processed[2].dropped
  /\ processed[2].item # processed[1].item
  /\ ~processed[3].dropped
  /\ Cardinality(DOMAIN items_per_domain) = 2

====
